---------------------------- MODULE Spec2Model ----------------------------
(***************************************************************************)
(* Model of src/frontend/app.js, the front end of the CNB Taylor-rule      *)
(* explorer: the data load at start-up, the controls and the debounced     *)
(* recompute, and the pure functions of the pipeline (filterRaw,           *)
(* calculateTaylor, computeStats, the label declutter of lastValuePlugin). *)
(*                                                                         *)
(* Numbers.  The numbers the functions take and return are decimals, held  *)
(* as scaled integers:                                                     *)
(*   - a data sample (actual_rate, cpi, gdp, pistar), an implied rate and  *)
(*     the inputs of computeStats: v is the integer 10000*v, the grid of   *)
(*     Math.round(val * 10000) / 10000;                                    *)
(*   - rho is 100*rho; rstar, alpha and beta are 10*value (the grids of    *)
(*     toFixed(2) and toFixed(1) in initControls);                         *)
(*   - a fit statistic is 1000*v, the grid of Math.round(x * 1000) / 1000; *)
(*   - a pixel coordinate is an integer.                                   *)
(* The arithmetic of calculateTaylor and computeStats between them is that *)
(* of JavaScript, on binary64 numbers: a decimal k/d stands for the        *)
(* binary64 number nearest to it, and every sum, product, quotient and     *)
(* square root is rounded to nearest, ties to even.                        *)
(* JavaScript's null is the value null below.                              *)
(*                                                                         *)
(* Strings.  A string is the sequence of its UTF-16 code units, so that    *)
(* replace("-", "") and the relational operators on strings are modelled   *)
(* by what they do.                                                        *)
(***************************************************************************)
EXTENDS Integers, Sequences, FiniteSets, TLC

VARIABLES
    phase,          \* position of the DOMContentLoaded handler: "loading", "ready", "failed"
    fetches,        \* the two fetch() calls of loadBaseData: url -> [status, body]
    raw,            \* state.raw
    defaults,       \* state.defaults
    sliders,        \* $("rho").value, $("rstar").value, $("alpha").value, $("beta").value
    numInputs,      \* $("rho-num").value, ...
    dateFrom,       \* $("date-from").value
    dateTo,         \* $("date-to").value
    charts,         \* state.charts: the data of the three Chart objects
    statsView,      \* the four statistics shown by updateStats
    loader,         \* the loader element: [visible, msg]
    wired,          \* whether initControls has attached the handlers
    debounceTimer,  \* state.debounceTimer
    pendingTimers,  \* the timers of setTimeout(updateTaylorChart, ...) not yet fired nor cleared
    hist,           \* history of the run, for the properties only (never read by the program)
    fnIn,           \* input of the pure function under check (pure-function specifications)
    fnOut           \* its output

appVars == <<phase, fetches, raw, defaults, sliders, numInputs, dateFrom, dateTo,
             charts, statsView, loader, wired, debounceTimer, pendingTimers, hist>>
vars == <<phase, fetches, raw, defaults, sliders, numInputs, dateFrom, dateTo,
          charts, statsView, loader, wired, debounceTimer, pendingTimers, hist,
          fnIn, fnOut>>

-----------------------------------------------------------------------------
(* JavaScript values *)

\* null, for a nullable number: an integer outside every modelled range
null == 0 - 2000000000

\* null, for state.raw and state.defaults (objects)
NullObj == [isNull |-> TRUE]

\* ToNumber(v) of an arithmetic operand: null converts to 0
ToNumber(v) == IF v = null THEN 0 ELSE v

Min(a, b) == IF a <= b THEN a ELSE b
Max(a, b) == IF a >= b THEN a ELSE b
Abs(a) == IF a < 0 THEN 0 - a ELSE a

-----------------------------------------------------------------------------
(* Strings as sequences of code units *)

Hyphen == 45
Digit(d) == 48 + d

\* String(n) for an integer n >= 0
RECURSIVE NumToStr(_)
NumToStr(n) == IF n < 10 THEN <<Digit(n)>> ELSE NumToStr(n \div 10) \o <<Digit(n % 10)>>

\* s.padStart(2, "0")
PadStart2(s) == IF Len(s) >= 2 THEN s ELSE IF Len(s) = 1 THEN <<Digit(0)>> \o s
                ELSE <<Digit(0), Digit(0)>>

\* the template `${y}-${m}` with m already a string
YearMonth(y, mStr) == NumToStr(y) \o <<Hyphen>> \o mStr

\* the period label "YYYY-MM" of year y, month m, as data.json writes it
Period(y, m) == YearMonth(y, PadStart2(NumToStr(m)))

\* s.replace("-", ""): the first hyphen removed, the rest kept
RECURSIVE ReplaceHyphen(_)
ReplaceHyphen(s) ==
    IF s = <<>> THEN <<>>
    ELSE IF Head(s) = Hyphen THEN Tail(s)
    ELSE <<Head(s)>> \o ReplaceHyphen(Tail(s))

\* a < b on strings: the first differing code unit decides, a proper prefix is smaller
RECURSIVE StrLess(_, _)
StrLess(a, b) ==
    IF b = <<>> THEN FALSE
    ELSE IF a = <<>> THEN TRUE
    ELSE IF Head(a) # Head(b) THEN Head(a) < Head(b)
    ELSE StrLess(Tail(a), Tail(b))

\* a >= b and a <= b on strings
StrGeq(a, b) == ~StrLess(a, b)
StrLeq(a, b) == ~StrLess(b, a)

-----------------------------------------------------------------------------
(* filterRaw *)

RECURSIVE FilterFrom(_, _, _, _, _)
FilterFrom(dates, values, f, t, i) ==
    IF i > Len(dates) THEN [dates |-> <<>>, values |-> <<>>]
    ELSE LET rest == FilterFrom(dates, values, f, t, i + 1)
             d == ReplaceHyphen(dates[i])
         IN  IF StrGeq(d, f) /\ StrLeq(d, t)
             THEN [dates |-> <<dates[i]>> \o rest.dates,
                   values |-> <<values[i]>> \o rest.values]
             ELSE rest

\* the variant with an exclusive upper bound (d < t)
filterRawExclusive(dates, values, from, to) ==
    LET f == ReplaceHyphen(from)
        t == ReplaceHyphen(to)
        keep == SelectSeq([i \in 1..Len(dates) |-> i],
                    LAMBDA i : StrGeq(ReplaceHyphen(dates[i]), f)
                               /\ StrLess(ReplaceHyphen(dates[i]), t))
    IN  [dates |-> [j \in 1..Len(keep) |-> dates[keep[j]]],
         values |-> [j \in 1..Len(keep) |-> values[keep[j]]]]

filterRaw(dates, values, from, to) ==
    FilterFrom(dates, values, ReplaceHyphen(from), ReplaceHyphen(to), 1)

-----------------------------------------------------------------------------
(* Natural numbers of any size, for the 53-bit significands of JavaScript's   *)
(* numbers and their exact sums, products, quotients and square roots: the    *)
(* sequence of the base-2^15 digits, least significant first, without         *)
(* leading zeros.                                                             *)

BigBase == 2^15

RECURSIVE BigNorm(_)
BigNorm(x) == IF x # <<>> /\ x[Len(x)] = 0 THEN BigNorm(SubSeq(x, 1, Len(x) - 1)) ELSE x

RECURSIVE BigNat(_)
BigNat(k) == IF k = 0 THEN <<>> ELSE <<k % BigBase>> \o BigNat(k \div BigBase)

RECURSIVE BigToInt(_)
BigToInt(x) == IF x = <<>> THEN 0 ELSE Head(x) + BigBase * BigToInt(Tail(x))

BigRest(x) == IF x = <<>> THEN <<>> ELSE Tail(x)
BigLow(x) == IF x = <<>> THEN 0 ELSE Head(x)

RECURSIVE BigAddC(_, _, _)
BigAddC(x, y, c) ==
    IF x = <<>> /\ y = <<>> THEN (IF c = 0 THEN <<>> ELSE <<c>>)
    ELSE LET s == BigLow(x) + BigLow(y) + c
         IN  <<s % BigBase>> \o BigAddC(BigRest(x), BigRest(y), s \div BigBase)

BigAdd(x, y) == BigAddC(x, y, 0)

\* x - y - b for x >= y + b
RECURSIVE BigSubB(_, _, _)
BigSubB(x, y, b) ==
    IF x = <<>> THEN <<>>
    ELSE LET s == Head(x) - BigLow(y) - b
         IN  <<s % BigBase>> \o BigSubB(Tail(x), BigRest(y), IF s < 0 THEN 1 ELSE 0)

BigSub(x, y) == BigNorm(BigSubB(x, y, 0))

\* -1, 0, 1 as x < y, x = y, x > y; digits i..1 are compared when the lengths agree
RECURSIVE BigCmpAt(_, _, _)
BigCmpAt(x, y, i) ==
    IF i = 0 THEN 0
    ELSE IF x[i] < y[i] THEN 0 - 1
    ELSE IF x[i] > y[i] THEN 1
    ELSE BigCmpAt(x, y, i - 1)

BigCmp(x, y) ==
    IF Len(x) < Len(y) THEN 0 - 1
    ELSE IF Len(x) > Len(y) THEN 1
    ELSE BigCmpAt(x, y, Len(x))

\* x * m + c for a digit-sized m
RECURSIVE BigMulSmallC(_, _, _)
BigMulSmallC(x, m, c) ==
    IF x = <<>> THEN (IF c = 0 THEN <<>> ELSE <<c>>)
    ELSE LET s == Head(x) * m + c
         IN  <<s % BigBase>> \o BigMulSmallC(Tail(x), m, s \div BigBase)

BigMulSmall(x, m) == BigNorm(BigMulSmallC(x, m, 0))

\* x * (the digits of y above i) is acc: y's digits are taken from the most significant
RECURSIVE BigMulFrom(_, _, _, _)
BigMulFrom(x, y, i, acc) ==
    IF i = 0 THEN acc
    ELSE IF acc = <<>> THEN BigMulFrom(x, y, i - 1, BigMulSmall(x, y[i]))
    ELSE IF y[i] = 0 THEN BigMulFrom(x, y, i - 1, <<0>> \o acc)
    ELSE BigMulFrom(x, y, i - 1, BigAdd(BigMulSmallC(x, y[i], 0), <<0>> \o acc))

BigMul(x, y) == IF x = <<>> THEN <<>> ELSE BigMulFrom(x, y, Len(y), <<>>)

\* short division: q holds the quotient digits found for x's digits above i (no
\* leading zero is kept), rem the remainder they leave
RECURSIVE BigDivSmallFrom(_, _, _, _, _)
BigDivSmallFrom(x, d, i, rem, q) ==
    IF i = 0 THEN [q |-> q, r |-> rem]
    ELSE IF q = <<>> /\ rem * BigBase + x[i] < d
         THEN BigDivSmallFrom(x, d, i - 1, rem * BigBase + x[i], <<>>)
         ELSE BigDivSmallFrom(x, d, i - 1, (rem * BigBase + x[i]) % d,
                              <<(rem * BigBase + x[i]) \div d>> \o q)

\* [q, r]: x = q * d + r, for a digit-sized divisor d
BigDivSmall(x, d) == BigDivSmallFrom(x, d, Len(x), 0, <<>>)

BigShlDigits(x, k) == IF x = <<>> THEN x ELSE [j \in 1..k |-> 0] \o x

\* x * 2^k and floor(x / 2^k)
BigShl(x, k) == BigMulSmall(BigShlDigits(x, k \div 15), 2^(k % 15))
BigShr(x, k) ==
    IF k \div 15 >= Len(x) THEN <<>>
    ELSE BigDivSmall(SubSeq(x, (k \div 15) + 1, Len(x)), 2^(k % 15)).q

RECURSIVE BitLen(_)
BitLen(n) == IF n = 0 THEN 0 ELSE 1 + BitLen(n \div 2)

BigBitLen(x) == IF x = <<>> THEN 0 ELSE 15 * (Len(x) - 1) + BitLen(x[Len(x)])

\* the largest q in lo..hi-1 with q * d <= rem, given that lo is such a q
RECURSIVE BigQuotDigitIn(_, _, _, _)
BigQuotDigitIn(rem, d, lo, hi) ==
    IF hi - lo <= 1 THEN lo
    ELSE IF BigCmp(BigMulSmall(d, (lo + hi) \div 2), rem) <= 0
         THEN BigQuotDigitIn(rem, d, (lo + hi) \div 2, hi)
         ELSE BigQuotDigitIn(rem, d, lo, (lo + hi) \div 2)

\* floor(rem / d) for rem < d * BigBase, bracketed with the leading bits of both:
\* dTop = floor(d / 2^sh) < 2^15 and floor(rem / 2^sh) < 2^30
BigQuotDigitAt(rem, d, rTop, dTop) ==
    BigQuotDigitIn(rem, d, rTop \div (dTop + 1), Min(BigBase, (rTop + 1) \div dTop + 1))

BigQuotDigit(rem, d, sh, dTop) == BigQuotDigitAt(rem, d, BigToInt(BigShr(rem, sh)), dTop)

\* long division: q holds the quotient digits found for x's digits above i (no
\* leading zero is kept), rem the remainder they leave
RECURSIVE BigDivModFrom(_, _, _, _, _, _, _)
BigDivModDigit(x, d, sh, dTop, i, q, cur, qd) ==
    IF q = <<>> /\ qd = 0 THEN BigDivModFrom(x, d, sh, dTop, i - 1, cur, <<>>)
    ELSE BigDivModFrom(x, d, sh, dTop, i - 1, BigSub(cur, BigMulSmall(d, qd)), <<qd>> \o q)
BigDivModFrom(x, d, sh, dTop, i, rem, q) ==
    IF i = 0 THEN [q |-> q, r |-> rem]
    ELSE BigDivModDigit(x, d, sh, dTop, i, q, BigNorm(<<x[i]>> \o rem),
                        BigQuotDigit(BigNorm(<<x[i]>> \o rem), d, sh, dTop))

BigDivModTop(x, d, sh) ==
    BigDivModFrom(x, d, sh, BigToInt(BigShr(d, sh)), Len(x) - Len(d) + 1,
                  SubSeq(x, Len(x) - Len(d) + 2, Len(x)), <<>>)

\* [q, r]: x = q * d + r, for any divisor d > 0; the leading Len(d) - 1 digits of x
\* are below d and give no quotient digit
BigDivMod(x, d) ==
    IF Len(x) < Len(d) THEN [q |-> <<>>, r |-> x]
    ELSE BigDivModTop(x, d, Max(0, BigBitLen(d) - 15))

\* floor(sqrt(n)) for an integer 0 <= n < 2^31, by bisection on lo <= root < hi
RECURSIVE IsqrtIn(_, _, _)
IsqrtIn(n, lo, hi) ==
    IF hi - lo <= 1 THEN lo
    ELSE LET mid == (lo + hi) \div 2
         IN  IF mid * mid <= n THEN IsqrtIn(n, mid, hi) ELSE IsqrtIn(n, lo, mid)

Isqrt(n) == IsqrtIn(n, 0, 46341)

\* floor(sqrt(N)) by Newton's iteration from a value r >= floor(sqrt(N))
RECURSIVE BigIsqrtFrom(_, _)
BigIsqrtNext(N, r, r1) == IF BigCmp(r1, r) < 0 THEN BigIsqrtFrom(N, r1) ELSE r
BigIsqrtFrom(N, r) == BigIsqrtNext(N, r, BigShr(BigAdd(r, BigDivMod(N, r).q), 1))

\* an even sh with N / 2^sh < 2^30
BigIsqrtShift(N) == IF BigBitLen(N) <= 30 THEN 0 ELSE 2 * ((BigBitLen(N) - 29) \div 2)

BigIsqrtStart(N, sh) == BigShl(BigNat(Isqrt(BigToInt(BigShr(N, sh))) + 1), sh \div 2)

BigIsqrt(N) == IF N = <<>> THEN <<>> ELSE BigIsqrtFrom(N, BigIsqrtStart(N, BigIsqrtShift(N)))

-----------------------------------------------------------------------------
(* JavaScript numbers (IEEE 754 binary64): [s, m, e] is s * m * 2^e with      *)
(* s = 1 or -1 and 2^52 <= m < 2^53, or m = 0 (the empty digit sequence) for  *)
(* zero.  Every operation is the exact result rounded to nearest, ties to     *)
(* even.  The modelled quantities stay far from the subnormal range and from  *)
(* overflow, and the sign of a zero is not kept (no operation of the page     *)
(* tells +0 from -0).                                                         *)

FloatZero == [s |-> 1, m |-> <<>>, e |-> 0]

\* the 53 or 54 bits of a rounded significand q2, times 2^e: 2^53 is 2^52 * 2
RoundCarry(q2, e) ==
    IF BigBitLen(q2) > 53 THEN [m |-> BigShr(q2, 1), e |-> e + 1] ELSE [m |-> q2, e |-> e]

\* bit k of x (bit 0 is the lowest), and whether x has a bit set below bit k
BigBit(x, k) == IF k \div 15 < Len(x) THEN (x[(k \div 15) + 1] \div 2^(k % 15)) % 2 ELSE 0
BigLowBits(x, k) ==
    \/ \E j \in 1..Min(k \div 15, Len(x)) : x[j] # 0
    \/ k \div 15 < Len(x) /\ x[(k \div 15) + 1] % 2^(k % 15) # 0

\* q is the significand to keep, half the first bit dropped, rest whether anything
\* below that bit is set: to nearest, a tie to the even significand
RoundHalf(q, half, rest, e) ==
    IF half = 1 /\ (rest \/ Head(q) % 2 = 1) THEN RoundCarry(BigAdd(q, <<1>>), e)
    ELSE [m |-> q, e |-> e]

\* the number nearest to (N + s) * 2^e, where 0 < s < 1 if sticky and s = 0 otherwise,
\* for N of L bits
RoundLen(N, e, sticky, L) ==
    IF L <= 53 THEN [m |-> BigShl(N, 53 - L), e |-> e - (53 - L)]
    ELSE RoundHalf(BigShr(N, L - 53), BigBit(N, L - 54), sticky \/ BigLowBits(N, L - 54),
                   e + (L - 53))

RoundTo53(N, e, sticky) == RoundLen(N, e, sticky, BigBitLen(N))

\* the number nearest to the quotient dr = [q, r] of a division, times 2^e
RoundQuot(dr, e) == RoundTo53(dr.q, e, dr.r # 0)

\* the same for the quotient of a division by a number of any size
RoundQuotBig(dr, e) == RoundTo53(dr.q, e, dr.r # <<>>)

\* the magnitude x = [m, e] with the sign s
FloatSigned(s, x) == IF x.m = <<>> THEN FloatZero ELSE [s |-> s, m |-> x.m, e |-> x.e]

FloatNeg(x) == FloatSigned(0 - x.s, x)
FloatAbs(x) == FloatSigned(1, x)

\* the number a decimal literal k/d denotes, d = 1, 10, 100, 1000 or 10000
FloatOfRatio(k, d) ==
    IF k = 0 THEN FloatZero
    ELSE FloatSigned(IF k < 0 THEN 0 - 1 ELSE 1,
                     RoundQuot(BigDivSmall(BigShl(BigNat(Abs(k)), 67), d), 0 - 67))

\* the number a sample k/10000 of data.json denotes
FloatOfDecimal(k) == FloatOfRatio(k, 10000)

\* sx * X * 2^e0 + sy * Y * 2^e0
FloatAddMag(sx, X, sy, Y, c) ==
    IF sx = sy THEN BigAdd(X, Y) ELSE IF c > 0 THEN BigSub(X, Y) ELSE BigSub(Y, X)

FloatAddSigned(sx, X, sy, Y, e0, c) ==
    IF sx # sy /\ c = 0 THEN FloatZero
    ELSE FloatSigned(IF sx = sy \/ c > 0 THEN sx ELSE sy,
                     RoundTo53(FloatAddMag(sx, X, sy, Y, c), e0, FALSE))

FloatAddShifted(sx, X, sy, Y, e0) == FloatAddSigned(sx, X, sy, Y, e0, BigCmp(X, Y))

FloatAddAt(x, y, e0) ==
    FloatAddShifted(x.s, BigShl(x.m, x.e - e0), y.s, BigShl(y.m, y.e - e0), e0)

\* x + y
FloatAdd(x, y) ==
    IF x.m = <<>> THEN y
    ELSE IF y.m = <<>> THEN x
    ELSE FloatAddAt(x, y, Min(x.e, y.e))

\* x - y
FloatSub(x, y) == FloatAdd(x, FloatNeg(y))

\* x * y
FloatMul(x, y) ==
    IF x.m = <<>> \/ y.m = <<>> THEN FloatZero
    ELSE FloatSigned(x.s * y.s, RoundTo53(BigMul(x.m, y.m), x.e + y.e, FALSE))

\* x / n for an integer 1 <= n < 2^15: the quotient of the significand is taken with
\* two bits more than n has, so that it keeps at least 55 bits before the rounding
FloatDivSmall(x, n) ==
    IF x.m = <<>> THEN FloatZero
    ELSE FloatSigned(x.s, RoundQuot(BigDivSmall(BigShl(x.m, BitLen(n) + 2), n),
                                    x.e - (BitLen(n) + 2)))

\* x / y for y # 0
FloatDiv(x, y) ==
    IF x.m = <<>> THEN FloatZero
    ELSE FloatSigned(x.s * y.s, RoundQuotBig(BigDivMod(BigShl(x.m, 56), y.m), x.e - 56 - y.e))

\* the root of N * 2^e for an even e and r = floor(sqrt(N)), which has at least 55 bits
FloatSqrtOf(N, e, r) == FloatSigned(1, RoundTo53(r, e \div 2, BigCmp(BigMul(r, r), N) # 0))

FloatSqrtOfShifted(N, e) == FloatSqrtOf(N, e, BigIsqrt(N))

\* Math.sqrt(x) for x >= 0
FloatSqrt(x) ==
    IF x.m = <<>> THEN FloatZero
    ELSE FloatSqrtOfShifted(BigShl(x.m, 57 + ((x.e - 57) % 2)), x.e - 57 - ((x.e - 57) % 2))

\* -1, 0, 1 as x < y, x = y, x > y, for x, y >= 0
FloatCmp(x, y) ==
    IF x.m = <<>> THEN (IF y.m = <<>> THEN 0 ELSE 0 - 1)
    ELSE IF y.m = <<>> THEN 1
    ELSE IF x.e < y.e THEN 0 - 1 ELSE IF x.e > y.e THEN 1 ELSE BigCmp(x.m, y.m)

\* Math.round(m / 2^k) for k > 0: floor(m / 2^k + 1/2)
MathRoundUp(m, k) == BigToInt(BigShr(BigAdd(m, BigShl(<<1>>, k - 1)), k))

\* -Math.round(-m / 2^k) for k > 0: ceil(m / 2^k - 1/2), with m2 = 2 * m, one = 2^k
MathRoundDown(m2, one, k) ==
    IF BigCmp(m2, one) <= 0 THEN 0
    ELSE BigToInt(BigShr(BigAdd(BigSub(m2, one), BigSub(BigShl(one, 1), <<1>>)), k + 1))

\* Math.round(x), an integer: the nearest one, a tie going towards +Infinity
MathRound(x) ==
    IF x.m = <<>> THEN 0
    ELSE IF x.e >= 0 THEN x.s * BigToInt(BigShl(x.m, x.e))
    ELSE IF 53 < 0 - x.e THEN 0
    ELSE IF x.s = 1 THEN MathRoundUp(x.m, 0 - x.e)
    ELSE 0 - MathRoundDown(BigShl(x.m, 1), BigShl(<<1>>, 0 - x.e), 0 - x.e)

\* xs.reduce((s, x) => s + x, 0): acc is the sum of xs[1..i-1], and 0 + x is x
RECURSIVE FloatSumFrom(_, _, _)
FloatSumFrom(xs, i, acc) ==
    IF i > Len(xs) THEN acc
    ELSE IF acc.m = <<>> THEN FloatSumFrom(xs, i + 1, xs[i])
    ELSE FloatSumFrom(xs, i + 1, FloatAdd(acc, xs[i]))

FloatSum(xs) == FloatSumFrom(xs, 1, FloatZero)

\* the samples ks as numbers
RECURSIVE FloatsOfDecimals(_)
FloatsOfDecimals(ks) ==
    IF ks = <<>> THEN <<>> ELSE <<FloatOfDecimal(Head(ks))>> \o FloatsOfDecimals(Tail(ks))

\* xs[i] - ys[i], xs[i] - c, xs[i] * ys[i] and Math.abs(xs[i]) for every i
RECURSIVE FloatSubEach(_, _)
FloatSubEach(xs, ys) ==
    IF xs = <<>> THEN <<>>
    ELSE <<FloatSub(Head(xs), Head(ys))>> \o FloatSubEach(Tail(xs), Tail(ys))

RECURSIVE FloatSubAll(_, _)
FloatSubAll(xs, c) ==
    IF xs = <<>> THEN <<>> ELSE <<FloatSub(Head(xs), c)>> \o FloatSubAll(Tail(xs), c)

RECURSIVE FloatMulEach(_, _)
FloatMulEach(xs, ys) ==
    IF xs = <<>> THEN <<>>
    ELSE <<FloatMul(Head(xs), Head(ys))>> \o FloatMulEach(Tail(xs), Tail(ys))

RECURSIVE FloatAbsEach(_)
FloatAbsEach(xs) ==
    IF xs = <<>> THEN <<>> ELSE <<FloatAbs(Head(xs))>> \o FloatAbsEach(Tail(xs))

-----------------------------------------------------------------------------
(* calculateTaylor.  The samples are in units of 10^-4, rho in units of 1/100 *)
(* and rstar, alpha, beta in units of 1/10: the decimal literals that         *)
(* data.json, params.json and the sliders' value strings hold.  The result is *)
(* in units of 10^-4: the integer n of Math.round(val * 10000), n / 10000     *)
(* being the number nearest to that decimal.                                  *)

\* target = rstar + pi + alpha * (pi - pistar) + beta * g, evaluated left to right
TaylorTarget(pi, g, pistar, rstar, alpha, beta) ==
    FloatAdd(FloatAdd(FloatAdd(rstar, pi), FloatMul(alpha, FloatSub(pi, pistar))),
             FloatMul(beta, g))

\* val = rho * iPrev + (1 - rho) * target, or (1 - rho) * target for a null iPrev
TaylorValOf(iPrev, rho, rest) ==
    IF iPrev = null THEN rest ELSE FloatAdd(FloatMul(rho, FloatOfDecimal(iPrev)), rest)

TaylorVal(iPrev, target, rho) ==
    TaylorValOf(iPrev, rho, FloatMul(FloatSub(FloatOfRatio(1, 1), rho), target))

\* Math.round(val * 10000), the numerator of Math.round(val * 10000) / 10000
MathRound4(val) == MathRound(FloatMul(val, FloatOfRatio(10000, 1)))

\* the variant without the test g === null (g then converts to 0)
TaylorAtNoGdpTest(data, rho, rstar, alpha, beta, i) ==
    IF data.cpi[i] = null THEN null
    ELSE MathRound4(TaylorVal(IF i = 1 THEN data.actual_rate[1] ELSE data.actual_rate[i - 1],
                              TaylorTarget(FloatOfDecimal(data.cpi[i]),
                                           FloatOfDecimal(ToNumber(data.gdp[i])),
                                           FloatOfDecimal(ToNumber(data.pistar[i])),
                                           FloatOfRatio(rstar, 10), FloatOfRatio(alpha, 10),
                                           FloatOfRatio(beta, 10)),
                              FloatOfRatio(rho, 100)))

\* result[i] of calculateTaylor; pi - pistar converts a null pistar to 0
TaylorAt(data, rho, rstar, alpha, beta, i) ==
    IF data.cpi[i] = null \/ data.gdp[i] = null THEN null
    ELSE MathRound4(TaylorVal(IF i = 1 THEN data.actual_rate[1] ELSE data.actual_rate[i - 1],
                              TaylorTarget(FloatOfDecimal(data.cpi[i]),
                                           FloatOfDecimal(data.gdp[i]),
                                           FloatOfDecimal(ToNumber(data.pistar[i])),
                                           FloatOfRatio(rstar, 10), FloatOfRatio(alpha, 10),
                                           FloatOfRatio(beta, 10)),
                              FloatOfRatio(rho, 100)))

\* the variant whose lag is the previously computed implied rate
RECURSIVE calculateTaylorImpliedLag(_, _, _, _, _)
calculateTaylorImpliedLag(data, rho, rstar, alpha, beta) ==
    LET n == Len(data.dates)
        init == [k \in {"dates", "actual_rate", "cpi", "gdp", "pistar"} |->
                    SubSeq(data[k], 1, n - 1)]
        before == calculateTaylorImpliedLag(init, rho, rstar, alpha, beta)
        lag == IF n = 1 THEN data.actual_rate[1] ELSE before[n - 1]
        last == IF data.cpi[n] = null \/ data.gdp[n] = null THEN null
                ELSE MathRound4(TaylorVal(lag,
                         TaylorTarget(FloatOfDecimal(data.cpi[n]), FloatOfDecimal(data.gdp[n]),
                                      FloatOfDecimal(ToNumber(data.pistar[n])),
                                      FloatOfRatio(rstar, 10), FloatOfRatio(alpha, 10),
                                      FloatOfRatio(beta, 10)),
                         FloatOfRatio(rho, 100)))
    IN  IF n = 0 THEN <<>> ELSE before \o <<last>>

RECURSIVE TaylorUpTo(_, _, _, _, _, _)
TaylorUpTo(data, rho, rstar, alpha, beta, n) ==
    IF n = 0 THEN <<>>
    ELSE TaylorUpTo(data, rho, rstar, alpha, beta, n - 1)
         \o <<TaylorAt(data, rho, rstar, alpha, beta, n)>>

calculateTaylor(data, rho, rstar, alpha, beta) ==
    TaylorUpTo(data, rho, rstar, alpha, beta, Len(data.dates))

-----------------------------------------------------------------------------
(* computeStats.  actual and implied are in units of 10^-4, the result in     *)
(* units of 10^-3: the integer n of Math.round(x * 1000).  Every sum,         *)
(* difference, product, quotient and root is the binary64 one, in the order   *)
(* the code evaluates it.                                                     *)

\* pairs: the [a, b] with both a and b non-null, in order
StatPairs(actual, implied) ==
    SelectSeq([i \in 1..Len(actual) |-> <<actual[i], implied[i]>>],
              LAMBDA p : p[1] # null /\ p[2] # null)

RECURSIVE PairColumn(_, _)
PairColumn(pairs, c) ==
    IF pairs = <<>> THEN <<>> ELSE <<Head(pairs)[c]>> \o PairColumn(Tail(pairs), c)

\* xs.reduce((s, x) => s + x, 0) / xs.length
FloatMean(xs) == FloatDivSmall(FloatSum(xs), Len(xs))

\* Math.round(x * 1000), the numerator of Math.round(x * 1000) / 1000
MathRound3(x) == MathRound(FloatMul(x, FloatOfRatio(1000, 1)))

\* Math.sqrt(xs.reduce((s, x) => s + x ** 2, 0)), where x ** 2 is x * x
FloatNorm(xs) == FloatSqrt(FloatSum(FloatMulEach(xs, xs)))

\* stdA > 0, stdA being a root
PositiveStd(std) == std.m # <<>>

CorrOfStd(cov, stdA, stdB) ==
    IF PositiveStd(stdA) /\ PositiveStd(stdB)
    THEN MathRound3(FloatDiv(cov, FloatMul(stdA, stdB)))
    ELSE null

CorrOfResiduals(ra, rb) ==
    CorrOfStd(FloatSum(FloatMulEach(ra, rb)), FloatNorm(ra), FloatNorm(rb))

\* corr, already rounded, or null: as and bs are the paired values
Correlation(as, bs) ==
    CorrOfResiduals(FloatSubAll(as, FloatMean(as)), FloatSubAll(bs, FloatMean(bs)))

StatsOfDiffs(as, bs, diffs) ==
    [rmse |-> MathRound3(FloatSqrt(FloatMean(FloatMulEach(diffs, diffs)))),
     mae |-> MathRound3(FloatMean(FloatAbsEach(diffs))),
     correlation |-> Correlation(as, bs),
     mean_deviation |-> MathRound3(FloatMean(diffs))]

StatsOfPairs(as, bs) == StatsOfDiffs(as, bs, FloatSubEach(as, bs))

computeStats(actual, implied) ==
    IF Len(StatPairs(actual, implied)) < 2
    THEN [rmse |-> null, mae |-> null, correlation |-> null, mean_deviation |-> null]
    ELSE StatsOfPairs(FloatsOfDecimals(PairColumn(StatPairs(actual, implied), 1)),
                      FloatsOfDecimals(PairColumn(StatPairs(actual, implied), 2)))

-----------------------------------------------------------------------------
(* lastValuePlugin.afterDraw: the vertical placement of the labels.  sf is    *)
(* exportScale (1 on the page, 2 in doDownloadPNG), a label is [yPx, di],     *)
(* di the index of its dataset.                                               *)

\* Math.round(20 * sf)
MIN_GAP(sf) == 20 * sf

\* Math.round(14 * sf) + PAD_Y * 2 with PAD_Y = Math.round(2 * sf)
PILL_H(sf) == 14 * sf + 2 * sf * 2

\* chartArea.bottom - PILL_H / 2
ClampLimit(area, sf) == area.bottom - PILL_H(sf) \div 2

\* toRender after the forEach: a dataset's label is dropped when yPx lies outside
\* [chartArea.top, chartArea.bottom]; pixels[di] is yScale.getPixelForValue(lastVal)
RECURSIVE CollectFrom(_, _, _)
CollectFrom(pixels, area, di) ==
    IF di > Len(pixels) THEN <<>>
    ELSE IF pixels[di] < area.top \/ pixels[di] > area.bottom
         THEN CollectFrom(pixels, area, di + 1)
         ELSE <<[yPx |-> pixels[di], di |-> di]>> \o CollectFrom(pixels, area, di + 1)

\* toRender.sort((a, b) => a.yPx - b.yPx): ascending, equal elements keep their order
RECURSIVE InsertByY(_, _)
InsertByY(sorted, x) ==
    IF sorted = <<>> THEN <<x>>
    ELSE IF x.yPx < Head(sorted).yPx THEN <<x>> \o sorted
    ELSE <<Head(sorted)>> \o InsertByY(Tail(sorted), x)

RECURSIVE SortByY(_)
SortByY(r) ==
    IF r = <<>> THEN <<>> ELSE InsertByY(SortByY(SubSeq(r, 1, Len(r) - 1)), r[Len(r)])

\* for (let i = 1; i < toRender.length; i++) ...: labels i..n pushed down
RECURSIVE ForwardFrom(_, _, _)
ForwardFrom(r, i, gap) ==
    IF i > Len(r) THEN r
    ELSE ForwardFrom(IF r[i].yPx - r[i - 1].yPx < gap
                     THEN [r EXCEPT ![i].yPx = r[i - 1].yPx + gap] ELSE r,
                     i + 1, gap)

\* for (let i = toRender.length - 1; i >= 0; i--) ...: labels i..1 clamped
RECURSIVE ClampFrom(_, _, _, _)
ClampFrom(r, i, limit, gap) ==
    IF i < 1 THEN r
    ELSE IF r[i].yPx > limit
         THEN LET r1 == [r EXCEPT ![i].yPx = limit]
                  r2 == IF i > 1
                        THEN [r1 EXCEPT ![i - 1].yPx = Min(r1[i - 1].yPx, limit - gap)]
                        ELSE r1
              IN  ClampFrom(r2, i - 1, limit, gap)
         ELSE ClampFrom(r, i - 1, limit, gap)

\* the stages of the placement: the labels collected, sorted, after the forward pass
\* and after the clamp (as drawn)
ResolveLabels(pixels, area, sf) ==
    LET collected == CollectFrom(pixels, area, 1)
        sorted == SortByY(collected)
        forward == ForwardFrom(sorted, 2, MIN_GAP(sf))
        resolved == ClampFrom(forward, Len(forward), ClampLimit(area, sf), MIN_GAP(sf))
    IN  [collected |-> collected, sorted |-> sorted, forward |-> forward,
         resolved |-> resolved]

-----------------------------------------------------------------------------
(* The page: bounds and inputs *)

\* the most timers the model lets stand pending at once (the code keeps at most one)
MaxPending == 2
\* the counters of hist stop counting here
MaxBurst == 2
MaxDownloads == 1

PARAMS == {"rho", "rstar", "alpha", "beta"}
URLS == {"data.json", "params.json"}
CHART_META == {"main", "cpi", "gdp"}
\* keys CHART_META has from Object.prototype: CHART_META[key] is a function or an
\* object for them, which has neither base nor title
CHART_META_Inherited == {"constructor", "__proto__"}
\* the keys downloadChart is called with
ChartKeyChoices == CHART_META \cup CHART_META_Inherited \cup {"other"}
Formats == {"png", "csv", "xlsx"}

\* parseFloat of a text that is no number
NaN == 0 - 1999999999

\* slider.min and slider.max (the ranges of the parameters)
SliderMin(p) == CASE p = "rho" -> 0 [] p = "rstar" -> 0 - 20 [] p = "alpha" -> 0 [] p = "beta" -> 0
SliderMax(p) == CASE p = "rho" -> 99 [] p = "rstar" -> 50 [] p = "alpha" -> 30 [] p = "beta" -> 30

\* params.json as served
ParamsDocs == {[rho |-> 50, rstar |-> 10, alpha |-> 5, beta |-> 5]}

\* data.json as served: four months, with and without missing samples
AppDates == <<Period(2020, 1), Period(2020, 2), Period(2020, 3), Period(2020, 4)>>
ActualChoices == {<<20000, 22500, null, 25000>>}
CpiChoices == {<<30000, 32000, null, 31000>>}
GdpChoices == {<<10000, 0 - 5000, 15000, 12000>>}
PistarChoices == {<<20000, 20000, 20000, null>>}
DataDocs ==
    {[dates |-> AppDates, actual_rate |-> a, cpi |-> c, gdp |-> g, pistar |-> ps,
      generated_at |-> "2025-02-01T06:00:00"] :
        a \in ActualChoices, c \in CpiChoices, g \in GdpChoices, ps \in PistarChoices}

Docs(url) == IF url = "data.json" THEN DataDocs ELSE ParamsDocs

\* the datasets given to getChartExportData on its own
ExportActual == {<<20000, 22500, null, 25000>>, <<null, 5, 0 - 12500, 100000>>}
ExportCpi == {<<30000, 32000, null, 31000>>, <<28000, null, 101234, 0>>}
ExportGdp == {<<10000, 0 - 5000, 15000, 12000>>, <<null, 24000, 0 - 110000, null>>}
ExportPistar == {<<20000, 20000, 20000, null>>, <<30000, 30000, 20000, 20000>>}
ExportDocs ==
    {[dates |-> AppDates, actual_rate |-> a, cpi |-> c, gdp |-> g, pistar |-> ps,
      generated_at |-> "2025-02-01T06:00:00"] :
        a \in ExportActual, c \in ExportCpi, g \in ExportGdp, ps \in ExportPistar}

\* the positions the user drags a slider to, the texts typed into a number field,
\* the months picked in the date fields, and the clock read by setZoom
SliderChoices(p) == IF p = "rho" THEN {0, 50} ELSE {ParamsDoc[p] : ParamsDoc \in ParamsDocs}
TypedChoices(p) == IF p = "rho" THEN {NaN, 1000} ELSE {NaN}
DateFromChoices == {Period(2020, 2)}
DateToChoices == {Period(2020, 3)}
NowChoices == {[year |-> 2020, month |-> 3]}

-----------------------------------------------------------------------------
(* The page's computations.  calculateTaylor and computeStats are functions   *)
(* of their arguments alone: their values for the datasets and parameters the *)
(* page and getChartExportData are given are computed once and looked up at   *)
(* the calls.                                                                 *)

\* the values a parameter of the page takes: a position of its slider, a default, or
\* a typed number clamped to the slider's range
PageParamValues(p) ==
    SliderChoices(p) \cup {Max(SliderMin(p), Min(SliderMax(p), t)) : t \in TypedChoices(p) \ {NaN}}

PageParams ==
    {[rho |-> r, rstar |-> rs, alpha |-> a, beta |-> b] :
        r \in PageParamValues("rho"), rs \in PageParamValues("rstar"),
        a \in PageParamValues("alpha"), b \in PageParamValues("beta")}

TaylorTable ==
    {[data |-> d, params |-> pr,
      result |-> calculateTaylor(d, pr.rho, pr.rstar, pr.alpha, pr.beta)] :
        d \in DataDocs \cup ExportDocs, pr \in PageParams}

\* calculateTaylor(data, rho, rstar, alpha, beta) for the fields of params, read from
\* the table
calculateTaylorOf(data, params) ==
    (CHOOSE e \in TaylorTable : e.data = data /\ e.params = params).result

\* the actual and the implied rates of a window of consecutive periods of data.json
StatsTableArgs ==
    UNION {{<<SubSeq(e.data.actual_rate, i, j), SubSeq(e.result, i, j)>> :
               i \in 1..(Len(e.result) + 1), j \in 0..Len(e.result)} :
           e \in {t \in TaylorTable : t.data \in DataDocs}}

StatsTable == {[args |-> a, result |-> computeStats(a[1], a[2])] : a \in StatsTableArgs}

\* the result of the table's entry, or other when the table has none
TableResult(hits, other) == IF hits = {} THEN other ELSE (CHOOSE e \in hits : TRUE).result

\* computeStats(actual, implied), read from the table where it holds the arguments
computeStatsOf(actual, implied) ==
    TableResult({e \in StatsTable : e.args = <<actual, implied>>},
                computeStats(actual, implied))

-----------------------------------------------------------------------------
(* The page: the functions of app.js *)

getDateRange(df, dt) ==
    [from |-> IF df = <<>> THEN Period(2000, 1) ELSE df,
     to |-> IF dt = <<>> THEN Period(2026, 12) ELSE dt]

\* the params object of getParamValues for the sliders' values sl
getParamValues(sl) == [rho |-> sl.rho, rstar |-> sl.rstar, alpha |-> sl.alpha, beta |-> sl.beta]

latestAvailableDate(rawd) ==
    IF rawd = NullObj \/ Len(rawd.dates) = 0 THEN Period(2025, 12)
    ELSE rawd.dates[Len(rawd.dates)]

\* the colour of a bar of the gdp chart
BarColor(v) == IF v = null THEN "grey" ELSE IF v >= 0 THEN "green" ELSE "red"

\* state.charts after initCharts
initCharts(rawd, from, to) ==
    LET cpiFiltered == filterRaw(rawd.dates, rawd.cpi, from, to)
        pistarFiltered == filterRaw(rawd.dates, rawd.pistar, from, to)
        gdpFiltered == filterRaw(rawd.dates, rawd.gdp, from, to)
    IN  [main |-> [labels |-> <<>>, datasets |-> <<<<>>, <<>>>>, backgroundColor |-> <<>>],
         cpi |-> [labels |-> cpiFiltered.dates,
                  datasets |-> <<cpiFiltered.values, pistarFiltered.values>>,
                  backgroundColor |-> <<>>],
         gdp |-> [labels |-> gdpFiltered.dates,
                  datasets |-> <<gdpFiltered.values>>,
                  backgroundColor |-> [i \in 1..Len(gdpFiltered.values) |->
                                          BarColor(gdpFiltered.values[i])]]]

\* state.charts after updateSecondaryCharts(from, to)
updateSecondaryCharts(ch, rawd, from, to) ==
    LET cpiF == filterRaw(rawd.dates, rawd.cpi, from, to)
        pistarF == filterRaw(rawd.dates, rawd.pistar, from, to)
        gdpF == filterRaw(rawd.dates, rawd.gdp, from, to)
    IN  [ch EXCEPT !.cpi.labels = cpiF.dates,
                   !.cpi.datasets = <<cpiF.values, pistarF.values>>,
                   !.gdp.labels = gdpF.dates,
                   !.gdp.datasets = <<gdpF.values>>,
                   !.gdp.backgroundColor = [i \in 1..Len(gdpF.values) |-> BarColor(gdpF.values[i])]]

\* the variant that runs the recurrence on the windowed series
MainSeriesWindowed(rawd, params, from, to) ==
    LET w == [k \in {"dates", "actual_rate", "cpi", "gdp", "pistar"} |->
                 filterRaw(rawd.dates, rawd[k], from, to).values]
    IN  [actualF |-> filterRaw(rawd.dates, rawd.actual_rate, from, to),
         impliedF |-> [dates |-> w.dates,
                       values |-> calculateTaylor(w, params.rho, params.rstar, params.alpha,
                                                  params.beta)]]

\* actualF and impliedF of updateTaylorChart and of getChartExportData (case "main")
MainSeries(rawd, params, from, to) ==
    LET allImplied == calculateTaylorOf(rawd, params)
    IN  [actualF |-> filterRaw(rawd.dates, rawd.actual_rate, from, to),
         impliedF |-> filterRaw(rawd.dates, allImplied, from, to)]

\* updateTaylorChart without the call of updateSecondaryCharts
TaylorChartUpdateMainOnly(ch, rawd, sl, df, dt) ==
    LET params == getParamValues(sl)
        range == getDateRange(df, dt)
        ms == MainSeries(rawd, params, range.from, range.to)
    IN  [charts |-> [ch EXCEPT !.main.labels = ms.actualF.dates,
                               !.main.datasets = <<ms.actualF.values, ms.impliedF.values>>],
         stats |-> computeStatsOf(ms.actualF.values, ms.impliedF.values)]

\* updateTaylorChart for the sliders' values sl and the date fields df, dt:
\* the new state.charts and the statistics handed to updateStats
TaylorChartUpdate(ch, rawd, sl, df, dt) ==
    LET params == getParamValues(sl)
        range == getDateRange(df, dt)
        ch1 == updateSecondaryCharts(ch, rawd, range.from, range.to)
        ms == MainSeries(rawd, params, range.from, range.to)
    IN  [charts |-> [ch1 EXCEPT !.main.labels = ms.actualF.dates,
                                !.main.datasets = <<ms.actualF.values, ms.impliedF.values>>],
         stats |-> computeStatsOf(ms.actualF.values, ms.impliedF.values)]

\* getChartExportData without the window: every period of the dataset is a row
ExportRowsUnwindowed(chartKey, rawd, sl, df, dt) ==
    LET range == getDateRange(<<>>, <<>>)
        params == getParamValues(sl)
    IN  CASE chartKey = "main" ->
               LET ms == MainSeries(rawd, params, range.from, range.to)
               IN  [i \in 1..Len(ms.actualF.dates) |->
                       <<ms.actualF.dates[i], ms.actualF.values[i], ms.impliedF.values[i]>>]
          [] chartKey = "cpi" ->
               LET cpiF == filterRaw(rawd.dates, rawd.cpi, range.from, range.to)
                   pistarF == filterRaw(rawd.dates, rawd.pistar, range.from, range.to)
               IN  [i \in 1..Len(cpiF.dates) |->
                       <<cpiF.dates[i], cpiF.values[i], pistarF.values[i]>>]
          [] chartKey = "gdp" ->
               LET gdpF == filterRaw(rawd.dates, rawd.gdp, range.from, range.to)
               IN  [i \in 1..Len(gdpF.dates) |-> <<gdpF.dates[i], gdpF.values[i]>>]
          [] OTHER -> <<>>

\* rows of getChartExportData(chartKey, title) for the current fields
ExportRows(chartKey, rawd, sl, df, dt) ==
    LET range == getDateRange(df, dt)
        params == getParamValues(sl)
    IN  CASE chartKey = "main" ->
               LET ms == MainSeries(rawd, params, range.from, range.to)
               IN  [i \in 1..Len(ms.actualF.dates) |->
                       <<ms.actualF.dates[i], ms.actualF.values[i], ms.impliedF.values[i]>>]
          [] chartKey = "cpi" ->
               LET cpiF == filterRaw(rawd.dates, rawd.cpi, range.from, range.to)
                   pistarF == filterRaw(rawd.dates, rawd.pistar, range.from, range.to)
               IN  [i \in 1..Len(cpiF.dates) |->
                       <<cpiF.dates[i], cpiF.values[i], pistarF.values[i]>>]
          [] chartKey = "gdp" ->
               LET gdpF == filterRaw(rawd.dates, rawd.gdp, range.from, range.to)
               IN  [i \in 1..Len(gdpF.dates) |-> <<gdpF.dates[i], gdpF.values[i]>>]
          [] OTHER -> <<>>

-----------------------------------------------------------------------------
(* The page: state *)

NoStats == [rmse |-> null, mae |-> null, correlation |-> null, mean_deviation |-> null]
NoSnapshot == [isNull |-> TRUE]

\* hist: what the properties need to know of the past.
\*   runCause    who called updateTaylorChart last: "init" (the DOMContentLoaded handler),
\*               "timer" (the debounce timer), "reset" (the reset button); "none" before
\*   runRead     the sliders' values and date fields that run read
\*   burstCalls  calls of scheduleUpdate since the last call made with no timer pending
\*   burstRuns   runs of updateTaylorChart since that call
\*   burstReset  whether the reset button was clicked since that call
\*   atLastCall  the sliders' values and date fields at the last call of scheduleUpdate
\*   downloads   downloads started by downloadChart
HistInit ==
    [runCause |-> "none", runRead |-> NoSnapshot, burstCalls |-> 0, burstRuns |-> 0,
     burstReset |-> FALSE, atLastCall |-> NoSnapshot, downloads |-> 0]

Snapshot(sl, df, dt) == [params |-> sl, from |-> df, to |-> dt]

HistCall(h, snap) ==
    IF pendingTimers = {}
    THEN [h EXCEPT !.burstCalls = 1, !.burstRuns = 0, !.burstReset = FALSE, !.atLastCall = snap]
    ELSE [h EXCEPT !.burstCalls = Min(@ + 1, MaxBurst), !.atLastCall = snap]

HistRun(h, cause, snap) ==
    [h EXCEPT !.runCause = cause, !.runRead = snap, !.burstRuns = Min(@ + 1, MaxBurst),
              !.burstReset = @ \/ cause = "reset"]

AppInit ==
    /\ phase = "loading"
    /\ fetches = [u \in URLS |-> [status |-> "pending", body |-> NullObj]]
    /\ raw = NullObj
    /\ defaults = NullObj
    /\ sliders \in {[rho |-> r, rstar |-> 10, alpha |-> 5, beta |-> 5] : r \in SliderChoices("rho")}
    /\ numInputs = sliders
    /\ dateFrom = <<>>
    /\ dateTo = <<>>
    /\ charts = <<>>
    /\ statsView = NoStats
    /\ loader = [visible |-> TRUE, msg |-> [kind |-> "loading"]]
    /\ wired = FALSE
    /\ debounceTimer = null
    /\ pendingTimers = {}
    /\ hist = HistInit

Init ==
    /\ AppInit
    /\ fnIn = NullObj
    /\ fnOut = NullObj

-----------------------------------------------------------------------------
(* The page: start-up *)

\* the rest of the DOMContentLoaded handler once both fetches have succeeded:
\* loadBaseData's assignments and setParamValues, initCharts, initControls,
\* updateTaylorChart, showLoader(false); updateStatusBadge writes only the text of
\* the badge, which is no part of the state here
InitSucceed(dataRes, paramsRes) ==
    LET range == getDateRange(dateFrom, dateTo)
        upd == TaylorChartUpdate(initCharts(dataRes, range.from, range.to), dataRes,
                                 paramsRes, dateFrom, dateTo)
    IN  /\ raw' = dataRes
        /\ defaults' = paramsRes
        /\ sliders' = getParamValues(paramsRes)
        /\ numInputs' = getParamValues(paramsRes)
        /\ charts' = upd.charts
        /\ statsView' = upd.stats
        /\ wired' = TRUE
        /\ loader' = [loader EXCEPT !.visible = FALSE]
        /\ phase' = "ready"
        /\ hist' = HistRun(hist, "init", Snapshot(getParamValues(paramsRes), dateFrom, dateTo))
        /\ UNCHANGED <<dateFrom, dateTo, debounceTimer, pendingTimers>>

\* the catch branch: loadBaseData threw the error of the fetch of url
InitFail(url, why) ==
    /\ phase' = "failed"
    /\ loader' = [visible |-> TRUE, msg |-> [kind |-> "error", url |-> url, why |-> why]]
    /\ UNCHANGED <<raw, defaults, sliders, numInputs, dateFrom, dateTo, charts, statsView,
                   wired, debounceTimer, pendingTimers, hist>>

\* the variant of loadBaseData that stores each document as it arrives
FetchResolveEach(url, doc) ==
    /\ fetches[url].status = "pending"
    /\ doc \in Docs(url)
    /\ fetches' = [fetches EXCEPT ![url] = [status |-> "ok", body |-> doc]]
    /\ UNCHANGED <<fnIn, fnOut>>
    /\ IF phase = "loading" /\ \A u \in URLS \ {url} : fetches[u].status = "ok"
       THEN InitSucceed(IF url = "data.json" THEN doc ELSE fetches["data.json"].body,
                        IF url = "params.json" THEN doc ELSE fetches["params.json"].body)
       ELSE /\ raw' = IF url = "data.json" THEN doc ELSE raw
            /\ defaults' = IF url = "params.json" THEN doc ELSE defaults
            /\ UNCHANGED <<phase, sliders, numInputs, dateFrom, dateTo, charts, statsView,
                           loader, wired, debounceTimer, pendingTimers, hist>>

\* fetchJSON(url) returns doc; Promise.all resolves once both have, and the handler goes on
FetchResolve(url, doc) ==
    /\ fetches[url].status = "pending"
    /\ doc \in Docs(url)
    /\ fetches' = [fetches EXCEPT ![url] = [status |-> "ok", body |-> doc]]
    /\ UNCHANGED <<fnIn, fnOut>>
    /\ IF phase = "loading" /\ \A u \in URLS \ {url} : fetches[u].status = "ok"
       THEN InitSucceed(IF url = "data.json" THEN doc ELSE fetches["data.json"].body,
                        IF url = "params.json" THEN doc ELSE fetches["params.json"].body)
       ELSE UNCHANGED <<phase, raw, defaults, sliders, numInputs, dateFrom, dateTo, charts,
                        statsView, loader, wired, debounceTimer, pendingTimers, hist>>

\* fetchJSON(url) throws: the response is not ok ("http_error") or fetch itself rejects
\* ("network_error"); Promise.all rejects with the first error and the handler catches it
FetchReject(url, why) ==
    /\ fetches[url].status = "pending"
    /\ why \in {"http_error", "network_error"}
    /\ fetches' = [fetches EXCEPT ![url] = [status |-> why, body |-> NullObj]]
    /\ UNCHANGED <<fnIn, fnOut>>
    /\ IF phase = "loading"
       THEN InitFail(url, why)
       ELSE UNCHANGED <<phase, raw, defaults, sliders, numInputs, dateFrom, dateTo, charts,
                        statsView, loader, wired, debounceTimer, pendingTimers, hist>>

-----------------------------------------------------------------------------
(* The page: the debounced update *)

TimerIds == 1..MaxPending

\* The id setTimeout returns.  The browser numbers its timers upwards, so a new timer
\* is never the timer state.debounceTimer names, be that one pending, cleared or
\* fired; the model counts round TimerIds, which has two ids at least.
NewTimerId(last) == IF last = null THEN 1 ELSE (last % MaxPending) + 1

\* the variant without clearTimeout
scheduleUpdateNoClear ==
    /\ NewTimerId(debounceTimer) \notin pendingTimers
    /\ debounceTimer' = NewTimerId(debounceTimer)
    /\ pendingTimers' = pendingTimers \cup {NewTimerId(debounceTimer)}

\* clearTimeout(state.debounceTimer); state.debounceTimer = setTimeout(updateTaylorChart, DEBOUNCE_MS).
\* The timer armed is a new one: it has not the id of the timer cleared.
scheduleUpdate ==
    LET cleared == pendingTimers \ {debounceTimer}
    IN  /\ NewTimerId(debounceTimer) \notin cleared
        /\ debounceTimer' = NewTimerId(debounceTimer)
        /\ pendingTimers' = cleared \cup {NewTimerId(debounceTimer)}

\* updateTaylorChart() called by `cause`, the sliders and date fields being sl, df, dt
updateTaylorChart(cause, sl, df, dt) ==
    IF raw = NullObj
    THEN UNCHANGED <<charts, statsView, hist>>
    ELSE LET upd == TaylorChartUpdate(charts, raw, sl, df, dt)
         IN  /\ charts' = upd.charts
             /\ statsView' = upd.stats
             /\ hist' = HistRun(hist, cause, Snapshot(sl, df, dt))

\* a pending timer fires: its callback is updateTaylorChart
TimerFire(id) ==
    /\ id \in pendingTimers
    /\ pendingTimers' = pendingTimers \ {id}
    /\ updateTaylorChart("timer", sliders, dateFrom, dateTo)
    /\ UNCHANGED <<phase, fetches, raw, defaults, sliders, numInputs, dateFrom, dateTo,
                   loader, wired, debounceTimer, fnIn, fnOut>>

-----------------------------------------------------------------------------
(* The page: the controls.  An element changes whether or not a handler is    *)
(* attached to it; the handler runs only once initControls has attached it.   *)

\* the slider of p is dragged to v: its "input" handler
SliderInput(p, v) ==
    /\ v \in SliderChoices(p)
    /\ sliders' = [sliders EXCEPT ![p] = v]
    /\ IF wired
       THEN /\ numInputs' = [numInputs EXCEPT ![p] = v]
            /\ scheduleUpdate
            /\ hist' = HistCall(hist, Snapshot(sliders', dateFrom, dateTo))
       ELSE UNCHANGED <<numInputs, debounceTimer, pendingTimers, hist>>
    /\ UNCHANGED <<phase, fetches, raw, defaults, dateFrom, dateTo, charts, statsView,
                   loader, wired, fnIn, fnOut>>

\* val of the "change" handler of a number field: parseFloat, the slider's value for
\* NaN, then the clamp to [min, max]
ClampTyped(p, typed, sl) ==
    LET val == IF typed = NaN THEN sl[p] ELSE typed
    IN  Max(SliderMin(p), Min(SliderMax(p), val))

\* `typed` is entered in the number field of p: its "change" handler
NumInputChange(p, typed) ==
    /\ typed \in TypedChoices(p)
    /\ IF wired
       THEN /\ numInputs' = [numInputs EXCEPT ![p] = ClampTyped(p, typed, sliders)]
            /\ sliders' = [sliders EXCEPT ![p] = ClampTyped(p, typed, sliders)]
            /\ scheduleUpdate
            /\ hist' = HistCall(hist, Snapshot(sliders', dateFrom, dateTo))
       ELSE /\ numInputs' = [numInputs EXCEPT ![p] = typed]
            /\ UNCHANGED <<sliders, debounceTimer, pendingTimers, hist>>
    /\ UNCHANGED <<phase, fetches, raw, defaults, dateFrom, dateTo, charts, statsView,
                   loader, wired, fnIn, fnOut>>

\* reset-btn is clicked: setParamValues(state.defaults); updateTaylorChart()
ResetClick ==
    /\ wired
    /\ sliders' = getParamValues(defaults)
    /\ numInputs' = getParamValues(defaults)
    /\ updateTaylorChart("reset", sliders', dateFrom, dateTo)
    /\ UNCHANGED <<phase, fetches, raw, defaults, dateFrom, dateTo, loader, wired,
                   debounceTimer, pendingTimers, fnIn, fnOut>>

\* a month (or nothing) is picked in date-from: its "change" handler is scheduleUpdate
DateFromChange(v) ==
    /\ v \in DateFromChoices
    /\ dateFrom' = v
    /\ IF wired
       THEN /\ scheduleUpdate
            /\ hist' = HistCall(hist, Snapshot(sliders, dateFrom', dateTo))
       ELSE UNCHANGED <<debounceTimer, pendingTimers, hist>>
    /\ UNCHANGED <<phase, fetches, raw, defaults, sliders, numInputs, dateTo, charts,
                   statsView, loader, wired, fnIn, fnOut>>

DateToChange(v) ==
    /\ v \in DateToChoices
    /\ dateTo' = v
    /\ IF wired
       THEN /\ scheduleUpdate
            /\ hist' = HistCall(hist, Snapshot(sliders, dateFrom, dateTo'))
       ELSE UNCHANGED <<debounceTimer, pendingTimers, hist>>
    /\ UNCHANGED <<phase, fetches, raw, defaults, sliders, numInputs, dateFrom, charts,
                   statsView, loader, wired, fnIn, fnOut>>

\* zoom-5y or zoom-10y is clicked: setZoom(years), the clock reading `now`
setZoom(years, now) ==
    /\ wired
    /\ years \in {5, 10}
    /\ now \in NowChoices
    /\ LET toM == PadStart2(NumToStr(now.month))
       IN  /\ dateFrom' = YearMonth(now.year - years, toM)
           /\ dateTo' = YearMonth(now.year, toM)
    /\ scheduleUpdate
    /\ hist' = HistCall(hist, Snapshot(sliders, dateFrom', dateTo'))
    /\ UNCHANGED <<phase, fetches, raw, defaults, sliders, numInputs, charts, statsView,
                   loader, wired, fnIn, fnOut>>

\* zoom-all is clicked
ZoomAllClick ==
    /\ wired
    /\ dateFrom' = Period(2000, 1)
    /\ dateTo' = latestAvailableDate(raw)
    /\ scheduleUpdate
    /\ hist' = HistCall(hist, Snapshot(sliders, dateFrom', dateTo'))
    /\ UNCHANGED <<phase, fetches, raw, defaults, sliders, numInputs, charts, statsView,
                   loader, wired, fnIn, fnOut>>

\* downloadChart(chartKey, format): nothing without data or when CHART_META[chartKey]
\* is undefined.  It is not for a key of Object.prototype either: for such a key
\* doDownloadPNG throws when it reads state.charts[chartKey].data.labels (739) and
\* nothing is downloaded, while getChartExportData returns no rows (673-674) and the
\* csv or xlsx file, named "undefined", is downloaded empty.  doDownloadXLSX returns
\* after its alert, without a download, when the XLSX library is not there
\* (typeof XLSX === "undefined", xlsxLoaded false)
downloadChart(chartKey, format, xlsxLoaded) ==
    /\ chartKey \in ChartKeyChoices
    /\ format \in Formats
    /\ hist' = IF raw = NullObj \/ chartKey \notin CHART_META \cup CHART_META_Inherited
               THEN hist
               ELSE IF format = "png" /\ chartKey \notin CHART_META THEN hist
               ELSE IF format = "xlsx" /\ ~xlsxLoaded THEN hist
               ELSE [hist EXCEPT !.downloads = Min(@ + 1, MaxDownloads)]
    /\ UNCHANGED <<phase, fetches, raw, defaults, sliders, numInputs, dateFrom, dateTo,
                   charts, statsView, loader, wired, debounceTimer, pendingTimers,
                   fnIn, fnOut>>

Next ==
    \/ \E url \in URLS : \E doc \in Docs(url) : FetchResolve(url, doc)
    \/ \E url \in URLS : \E why \in {"http_error", "network_error"} : FetchReject(url, why)
    \/ \E id \in TimerIds : TimerFire(id)
    \/ \E p \in PARAMS : \E v \in SliderChoices(p) : SliderInput(p, v)
    \/ \E p \in PARAMS : \E typed \in TypedChoices(p) : NumInputChange(p, typed)
    \/ ResetClick
    \/ \E v \in DateFromChoices : DateFromChange(v)
    \/ \E v \in DateToChoices : DateToChange(v)
    \/ \E years \in {5, 10} : \E now \in NowChoices : setZoom(years, now)
    \/ ZoomAllClick
    \/ \E chartKey \in ChartKeyChoices : \E format \in Formats :
           \E xlsxLoaded \in BOOLEAN : downloadChart(chartKey, format, xlsxLoaded)

Spec == Init /\ [][Next]_vars

-----------------------------------------------------------------------------
(* Properties of the page *)

\* C1 (debounce): calls of scheduleUpdate that each arrive while the timer of the
\* previous one is pending leave one timer pending, the earlier ones being cancelled;
\* no run of updateTaylorChart happens while it is pending, and once it has fired
\* exactly one run has happened, by the timer, reading the coefficients and the window
\* in effect at the last call.  (The reset button does not call scheduleUpdate; bursts
\* with a click on it are the subject of C2.)
C1_Debounce ==
    /\ Cardinality(pendingTimers) <= 1
    /\ (pendingTimers # {} /\ ~hist.burstReset) => hist.burstRuns = 0
    /\ (pendingTimers = {} /\ hist.burstCalls >= 1 /\ ~hist.burstReset) =>
           /\ hist.burstRuns = 1
           /\ hist.runCause = "timer"
           /\ hist.runRead = hist.atLastCall

\* two or more calls were coalesced into one run, which read a coefficient set by the user
C1_Witness ==
    /\ pendingTimers = {}
    /\ hist.burstCalls >= 2
    /\ ~hist.burstReset
    /\ hist.burstRuns = 1
    /\ hist.runCause = "timer"
    /\ hist.runRead = hist.atLastCall
    /\ hist.runRead.params.rho # defaults.rho
    /\ hist.runRead.from # <<>>

\* C2 (single entry point): every run of updateTaylorChart after the controls are
\* wired is made by the debounce timer, and a burst of triggers, reset included,
\* never leads to two runs.  The run of the DOMContentLoaded handler, which follows
\* initControls at once, is not counted against it.
C2_SingleEntryPoint ==
    /\ hist.runCause \in {"none", "init", "timer"}
    /\ hist.burstCalls >= 1 => hist.burstRuns <= 1

\* the windows the date fields and zoom buttons can select
WindowChoices ==
    {getDateRange(f, t) : f \in DateFromChoices \cup {<<>>}, t \in DateToChoices \cup {<<>>}}

\* the value of series `values`, labelled by `labels`, agrees with full at every period
AgreesWithFull(labels, values, dates, full) ==
    \A j \in 1..Len(labels) : \A i \in 1..Len(dates) :
        labels[j] = dates[i] => values[j] = full[i]

\* C3 (window invariance): the implied values on the main chart, those of an export of
\* it, and those under any window, are at every period the values calculateTaylor gives
\* there on the entire dataset; so two windows agree on every period they share.
C3_WindowInvariance ==
    raw # NullObj =>
        LET shown == hist.runRead.params
            rows == ExportRows("main", raw, sliders, dateFrom, dateTo)
        IN  /\ AgreesWithFull(charts.main.labels, charts.main.datasets[2], raw.dates,
                   calculateTaylorOf(raw, getParamValues(shown)))
            /\ AgreesWithFull([j \in 1..Len(rows) |-> rows[j][1]],
                              [j \in 1..Len(rows) |-> rows[j][3]], raw.dates,
                   calculateTaylorOf(raw, getParamValues(sliders)))
            /\ \A w \in WindowChoices :
                   AgreesWithFull(
                       MainSeries(raw, getParamValues(sliders), w.from, w.to).impliedF.dates,
                       MainSeries(raw, getParamValues(sliders), w.from, w.to).impliedF.values,
                       raw.dates,
                       calculateTaylorOf(raw, getParamValues(sliders)))

\* the chart shows a window that starts after the first period, with inertia, and its
\* first implied value is a number; an export has been made
C3_Witness ==
    /\ raw # NullObj
    /\ hist.runRead.params.rho = 50
    /\ hist.runRead.from = Period(2020, 2)
    /\ charts.main.labels[1] = Period(2020, 2)
    /\ charts.main.datasets[2][1] # null
    /\ raw.actual_rate[1] # raw.actual_rate[2]
    /\ hist.downloads >= 1

\* C10 (initialization failure): once a fetch has failed the page is for ever without
\* data, defaults, charts, handlers, timers, runs and exports, and shows the loader
\* with the error; and state.raw is null exactly when state.defaults is.
C10_InitAllOrNothing ==
    /\ (raw = NullObj) <=> (defaults = NullObj)
    /\ (\E u \in URLS : fetches[u].status \in {"http_error", "network_error"}) =>
           /\ phase = "failed"
           /\ raw = NullObj
           /\ defaults = NullObj
           /\ charts = <<>>
           /\ ~wired
           /\ pendingTimers = {}
           /\ debounceTimer = null
           /\ hist = HistInit
           /\ statsView = NoStats
           /\ loader.visible
           /\ loader.msg.kind = "error"

\* data.json arrived, params.json failed, and the user has since moved a slider and
\* picked a month
C10_Witness ==
    /\ phase = "failed"
    /\ fetches["data.json"].status = "ok"
    /\ fetches["params.json"].status = "network_error"
    /\ sliders.rho # 50
    /\ dateFrom # <<>>
    /\ raw = NullObj

-----------------------------------------------------------------------------
(* The functions on their own: fnIn holds the arguments of one call, fnOut its *)
(* result, and the page stands still at its start.                             *)

PageIdle == AppInit /\ sliders.rho = 50

\* the longest dataset given to calculateTaylor
TaylorMaxLen == 2
\* the longest period list given to filterRaw
FilterMaxLen == 3
\* the longest series given to computeStats
StatsMaxLen == 3
\* the most datasets of a chart that carry a label
MaxLabels == 3

SeqsUpTo(S, n) == UNION {[1..k -> S] : k \in 0..n}
SeqsOfLen(S, k) == [1..k -> S]

\* calculateTaylor: the samples of the literal case of the recurrence and missing
\* samples, in every combination, and an inflation of 0.01, for which with rho = 0.05
\* the sum rho * iPrev + (1 - rho) * target is, in real numbers, half-way between two
\* numbers of four decimals: 0.58925 (iPrev = 2), 0.61425 (iPrev = 2.5) or 0.48925
\* (iPrev null)
TaylorActual == {null, 20000, 25000}
TaylorCpi == {null, 30000}
TaylorGdp == {null, 10000}
TaylorPistar == {null, 20000}
TaylorRho == {5, 50}
TaylorPeriods ==
    [actual : TaylorActual, cpi : TaylorCpi, gdp : TaylorGdp, pistar : TaylorPistar]
    \cup [actual : TaylorActual, cpi : {100}, gdp : {10000}, pistar : {20000}]

InitTaylor ==
    /\ PageIdle
    /\ \E k \in 0..TaylorMaxLen :
         \E ps \in SeqsOfLen(TaylorPeriods, k), r \in TaylorRho :
             fnIn = [data |-> [dates |-> [i \in 1..k |-> Period(2020, i)],
                               actual_rate |-> [i \in 1..k |-> ps[i].actual],
                               cpi |-> [i \in 1..k |-> ps[i].cpi],
                               gdp |-> [i \in 1..k |-> ps[i].gdp],
                               pistar |-> [i \in 1..k |-> ps[i].pistar]],
                     rho |-> r, rstar |-> 10, alpha |-> 5, beta |-> 5]
    /\ fnOut = NullObj

CallCalculateTaylor ==
    /\ fnOut = NullObj
    /\ fnOut' = [result |-> calculateTaylor(fnIn.data, fnIn.rho, fnIn.rstar, fnIn.alpha,
                                             fnIn.beta)]
    /\ UNCHANGED <<appVars, fnIn>>

NextTaylor == CallCalculateTaylor

SpecTaylor == InitTaylor /\ [][NextTaylor]_vars

\* filterRaw: period lists in any order, with repetitions, across a change of year
FilterPeriods == {Period(2019, 12), Period(2020, 1), Period(2020, 2), Period(2020, 3)}
FilterValues(k) == {[i \in 1..k |-> 100 * i], [i \in 1..k |-> IF i = 2 THEN null ELSE 7]}

InitFilter ==
    /\ PageIdle
    /\ \E k \in 0..FilterMaxLen :
           fnIn \in [dates : SeqsOfLen(FilterPeriods, k), values : FilterValues(k),
                     from : FilterPeriods, to : FilterPeriods]
    /\ fnOut = NullObj

CallFilterRaw ==
    /\ fnOut = NullObj
    /\ fnOut' = [result |-> filterRaw(fnIn.dates, fnIn.values, fnIn.from, fnIn.to)]
    /\ UNCHANGED <<appVars, fnIn>>

NextFilter == CallFilterRaw

SpecFilter == InitFilter /\ [][NextFilter]_vars

\* computeStats: series of multiples of 0.2 with missing samples
StatsActual == {null, 2000, 20000}
StatsImplied == {null, 2000, 4000, 30000}

InitStats ==
    /\ PageIdle
    /\ \E k \in 0..StatsMaxLen :
           fnIn \in [actual : SeqsOfLen(StatsActual, k), implied : SeqsOfLen(StatsImplied, k)]
    /\ fnOut = NullObj

CallComputeStats ==
    /\ fnOut = NullObj
    /\ fnOut' = [result |-> computeStats(fnIn.actual, fnIn.implied)]
    /\ UNCHANGED <<appVars, fnIn>>

NextStats == CallComputeStats

SpecStats == InitStats /\ [][NextStats]_vars

\* lastValuePlugin.afterDraw: the pixel of each dataset's last value, on the page
\* (sf = 1) and in an export (sf = 2)
LabelPixels == {0 - 5, 5, 10, 60, 75, 90, 100, 105}
LabelAreas == {[top |-> 0, bottom |-> 100], [top |-> 0, bottom |-> 20],
               [top |-> 0, bottom |-> 200]}

InitDeclutter ==
    /\ PageIdle
    /\ fnIn \in [pixels : SeqsUpTo(LabelPixels, MaxLabels) \ {<<>>}, area : LabelAreas,
                 sf : {1, 2}]
    /\ fnOut = NullObj

CallAfterDraw ==
    /\ fnOut = NullObj
    /\ fnOut' = [result |-> ResolveLabels(fnIn.pixels, fnIn.area, fnIn.sf)]
    /\ UNCHANGED <<appVars, fnIn>>

NextDeclutter == CallAfterDraw

SpecDeclutter == InitDeclutter /\ [][NextDeclutter]_vars

-----------------------------------------------------------------------------
(* Properties of calculateTaylor (under SpecTaylor) *)

\* C4 (null propagation): calculateTaylor returns one entry per period, and null at
\* every index whose inflation or output growth is null, whatever the actual rate
\* and the inflation target are.
C4_NullPropagation ==
    fnOut # NullObj =>
        /\ Len(fnOut.result) = Len(fnIn.data.dates)
        /\ \A i \in 1..Len(fnIn.data.dates) :
               (fnIn.data.cpi[i] = null \/ fnIn.data.gdp[i] = null) => fnOut.result[i] = null

\* output growth alone is missing at the second period, everything else is there
C4_Witness ==
    /\ fnOut # NullObj
    /\ Len(fnIn.data.dates) = 2
    /\ fnIn.data.gdp[2] = null
    /\ fnIn.data.cpi[2] # null
    /\ fnIn.data.pistar[2] # null
    /\ fnIn.data.actual_rate[1] # null
    /\ fnOut.result[2] = null
    /\ fnOut.result[1] # null

\* C5 as stated (every missing same-period input is a gap): calculateTaylor returns
\* null at every index whose inflation, output growth or inflation target is null.
C5_ComputationGap ==
    fnOut # NullObj =>
        \A i \in 1..Len(fnIn.data.dates) :
            (fnIn.data.cpi[i] = null \/ fnIn.data.gdp[i] = null \/ fnIn.data.pistar[i] = null)
                => fnOut.result[i] = null

\* r is one of the numbers of four decimals nearest to val, a real number in units
\* of 10^-7
NearestTo4(val, r) == 1000 * r - 500 <= val /\ val <= 1000 * r + 500

\* the literal case of C6
C6_Literal ==
    [data |-> [dates |-> <<Period(2020, 1), Period(2020, 2)>>,
               actual_rate |-> <<20000, 25000>>, cpi |-> <<30000, 30000>>,
               gdp |-> <<10000, 10000>>, pistar |-> <<20000, 20000>>],
     rho |-> 50, rstar |-> 10, alpha |-> 5, beta |-> 5]

\* C6 (recurrence value): at every index with inflation, output growth and inflation
\* target present, calculateTaylor returns rho * iPrev + (1 - rho) * target, or
\* (1 - rho) * target when iPrev is null, rounded to four decimals, with
\* target = rstar + inflation + alpha * (inflation - inflationTarget) + beta * output and
\* iPrev the actual rate of the period before (of the first period at the first).  The
\* sums and products are those of binary64 numbers, taken in the order written, and
\* the rounding is Math.round(10000 * val) / 10000; the value returned is a number of
\* four decimals nearest to the real number the formula denotes; the literal case
\* gives 3.5.
C6_RecurrenceValue ==
    fnOut # NullObj =>
        /\ \A i \in 1..Len(fnIn.data.dates) :
               (fnIn.data.cpi[i] # null /\ fnIn.data.gdp[i] # null /\ fnIn.data.pistar[i] # null)
               => LET iPrev == fnIn.data.actual_rate[IF i = 1 THEN 1 ELSE i - 1]
                      rho == FloatOfRatio(fnIn.rho, 100)
                      inflation == FloatOfDecimal(fnIn.data.cpi[i])
                      target == FloatAdd(FloatAdd(FloatAdd(FloatOfRatio(fnIn.rstar, 10),
                                                           inflation),
                                                  FloatMul(FloatOfRatio(fnIn.alpha, 10),
                                                           FloatSub(inflation,
                                                               FloatOfDecimal(fnIn.data.pistar[i])))),
                                         FloatMul(FloatOfRatio(fnIn.beta, 10),
                                                  FloatOfDecimal(fnIn.data.gdp[i])))
                      rest == FloatMul(FloatSub(FloatOfRatio(1, 1), rho), target)
                      val == IF iPrev = null THEN rest
                             ELSE FloatAdd(FloatMul(rho, FloatOfDecimal(iPrev)), rest)
                      realTarget == 10000 * fnIn.rstar + 10 * fnIn.data.cpi[i]
                                    + fnIn.alpha * (fnIn.data.cpi[i] - fnIn.data.pistar[i])
                                    + fnIn.beta * fnIn.data.gdp[i]
                      realVal == IF iPrev = null THEN (100 - fnIn.rho) * realTarget
                                 ELSE 10 * fnIn.rho * iPrev + (100 - fnIn.rho) * realTarget
                  IN  /\ fnOut.result[i] # null
                      /\ fnOut.result[i] = MathRound(FloatMul(val, FloatOfRatio(10000, 1)))
                      /\ NearestTo4(realVal, fnOut.result[i])
        /\ fnIn = C6_Literal => fnOut.result[1] = 35000

\* the literal case has been computed: 3.5 at the first period, and at the second,
\* whose lag is the actual 2.0 and not the implied 3.5
C6_Witness ==
    /\ fnIn = C6_Literal
    /\ fnOut # NullObj
    /\ fnOut.result = <<35000, 35000>>

-----------------------------------------------------------------------------
(* Properties of filterRaw (under SpecFilter) *)

\* year * 12 + month of a label "YYYY-MM"
PeriodNum(p) ==
    12 * (1000 * (p[1] - 48) + 100 * (p[2] - 48) + 10 * (p[3] - 48) + (p[4] - 48))
    + 10 * (p[6] - 48) + (p[7] - 48)

\* the indices of the periods within [from, to], ascending
KeptIndices(dates, from, to) ==
    SelectSeq([i \in 1..Len(dates) |-> i],
              LAMBDA i : PeriodNum(from) <= PeriodNum(dates[i])
                         /\ PeriodNum(dates[i]) <= PeriodNum(to))

\* C7 (window filter): filterRaw returns the entries at the indices i with
\* from <= period(i) <= to, both bounds included, in their order, dates and values
\* index-aligned; from = to = 2020-02 on [2020-01, 2020-02, 2020-03] keeps the one
\* entry of 2020-02, and from > to keeps nothing.
C7_WindowFilter ==
    fnOut # NullObj =>
        LET keep == KeptIndices(fnIn.dates, fnIn.from, fnIn.to)
        IN  /\ fnOut.result.dates = [j \in 1..Len(keep) |-> fnIn.dates[keep[j]]]
            /\ fnOut.result.values = [j \in 1..Len(keep) |-> fnIn.values[keep[j]]]
            /\ Len(fnOut.result.dates) = Len(fnOut.result.values)
            /\ (/\ fnIn.dates = <<Period(2020, 1), Period(2020, 2), Period(2020, 3)>>
                /\ fnIn.from = Period(2020, 2)
                /\ fnIn.to = Period(2020, 2))
               => /\ fnOut.result.dates = <<Period(2020, 2)>>
                  /\ fnOut.result.values = <<fnIn.values[2]>>
            /\ PeriodNum(fnIn.from) > PeriodNum(fnIn.to)
               => fnOut.result = [dates |-> <<>>, values |-> <<>>]

\* the literal case has been filtered
C7_Witness ==
    /\ fnOut # NullObj
    /\ fnIn.dates = <<Period(2020, 1), Period(2020, 2), Period(2020, 3)>>
    /\ fnIn.values = <<100, 200, 300>>
    /\ fnIn.from = Period(2020, 2)
    /\ fnIn.to = Period(2020, 2)
    /\ fnOut.result = [dates |-> <<Period(2020, 2)>>, values |-> <<200>>]

-----------------------------------------------------------------------------
(* Properties of computeStats (under SpecStats) *)

\* the indices at which both series have a value
PairedIndices(actual, implied) ==
    {i \in 1..Len(actual) : actual[i] # null /\ implied[i] # null}

\* C8 as stated (undefined statistics): the four statistics are all null exactly when
\* fewer than two indices have both values; with two or more, rmse, mae and
\* mean_deviation are numbers and correlation is null exactly when the paired actual
\* values, or the paired implied values, are all equal.
C8_StatisticsUndefined ==
    fnOut # NullObj =>
        LET I == PairedIndices(fnIn.actual, fnIn.implied)
            r == fnOut.result
            flat == \/ \A i, j \in I : fnIn.actual[i] = fnIn.actual[j]
                    \/ \A i, j \in I : fnIn.implied[i] = fnIn.implied[j]
        IN  /\ (r = NoStats) <=> (Cardinality(I) < 2)
            /\ Cardinality(I) >= 2 =>
                   /\ r.rmse # null
                   /\ r.mae # null
                   /\ r.mean_deviation # null
                   /\ (r.correlation = null) <=> flat

-----------------------------------------------------------------------------
(* Properties of lastValuePlugin.afterDraw (under SpecDeclutter) *)

\* C9 as stated (declutter guarantee): for candidates that all lie within the plot's
\* vertical extent, no label is drawn outside it, and when
\* (number of labels - 1) * MIN_GAP fits into the extent any two consecutive labels
\* are at least MIN_GAP apart.
C9_Declutter ==
    (/\ fnOut # NullObj
     /\ \A di \in 1..Len(fnIn.pixels) :
            fnIn.area.top <= fnIn.pixels[di] /\ fnIn.pixels[di] <= fnIn.area.bottom)
    => LET r == fnOut.result.resolved
       IN  /\ \A i \in 1..Len(r) :
                  fnIn.area.top <= r[i].yPx /\ r[i].yPx <= fnIn.area.bottom
           /\ (Len(r) - 1) * MIN_GAP(fnIn.sf) <= fnIn.area.bottom - fnIn.area.top
              => \A i \in 2..Len(r) : r[i].yPx - r[i - 1].yPx >= MIN_GAP(fnIn.sf)

-----------------------------------------------------------------------------
(* The export writers: doDownloadCSV and doDownloadXLSX over the rows of
   getChartExportData.  A row is <<label, value, ...>>: the label a string, each
   value a number (in units of 1/10000) or null. *)

Dot == 46
Comma == 44
Semicolon == 59

\* the digits of String(f / 10000) after the point, for 0 < f < 10000 with w digits left
RECURSIVE FractionDigits(_, _)
FractionDigits(f, w) ==
    IF f = 0 THEN <<>>
    ELSE <<Digit(f \div 10 ^ (w - 1))>> \o FractionDigits(f % 10 ^ (w - 1), w - 1)

\* String(v) of the number v / 10000: the shortest decimal, no exponent in this range
NumberToString(v) ==
    (IF v < 0 THEN <<Hyphen>> ELSE <<>>)
    \o NumToStr(Abs(v) \div 10000)
    \o (IF Abs(v) % 10000 = 0 THEN <<>> ELSE <<Dot>> \o FractionDigits(Abs(v) % 10000, 4))

\* s.replace(".", ","): the first point becomes a comma
RECURSIVE ReplaceDot(_)
ReplaceDot(s) ==
    IF s = <<>> THEN <<>>
    ELSE IF Head(s) = Dot THEN <<Comma>> \o Tail(s)
    ELSE <<Head(s)>> \o ReplaceDot(Tail(s))

\* fmt of doDownloadCSV on a period label, and on a value
fmtLabel(d) == ReplaceDot(d)
fmtValue(v) == IF v = null THEN <<>> ELSE ReplaceDot(NumberToString(v))

\* fields.join(";")
RECURSIVE JoinSemicolon(_)
JoinSemicolon(fields) ==
    IF Len(fields) = 0 THEN <<>>
    ELSE IF Len(fields) = 1 THEN fields[1]
    ELSE fields[1] \o <<Semicolon>> \o JoinSemicolon(Tail(fields))

\* the text lines doDownloadCSV writes for the rows (after the meta lines and the headers)
doDownloadCSV(rows) ==
    [j \in 1..Len(rows) |->
        JoinSemicolon([c \in 1..Len(rows[j]) |->
                          IF c = 1 THEN fmtLabel(rows[j][c]) ELSE fmtValue(rows[j][c])])]

\* the cells doDownloadXLSX hands to aoa_to_sheet for the rows; nothing is written
\* when the XLSX library has not loaded
doDownloadXLSX(rows, xlsxLoaded) ==
    IF ~xlsxLoaded THEN NullObj
    ELSE [cells |-> [j \in 1..Len(rows) |->
                        [c \in 1..Len(rows[j]) |->
                            IF c > 1 /\ rows[j][c] = null THEN <<>> ELSE rows[j][c]]]]

\* the datasets, keys and fields an export is taken with
ExportKeys == CHART_META \cup {"other"}
ExportFrom == {<<>>, Period(2020, 2), Period(2020, 4)}
ExportTo == {<<>>, Period(2020, 1), Period(2020, 3)}

InitExport ==
    /\ PageIdle
    /\ \E doc \in ExportDocs :
         \E k \in ExportKeys, r \in SliderChoices("rho"), df \in ExportFrom, dt \in ExportTo :
           \E loaded \in BOOLEAN :
             fnIn = [raw |-> doc,
                     chartKey |-> k,
                     sliders |-> [rho |-> r, rstar |-> 10, alpha |-> 5, beta |-> 5],
                     dateFrom |-> df, dateTo |-> dt, xlsxLoaded |-> loaded]
    /\ fnOut = NullObj

WriteExport(rows, xlsxLoaded) ==
    [rows |-> rows, csv |-> doDownloadCSV(rows), xlsx |-> doDownloadXLSX(rows, xlsxLoaded)]

CallGetChartExportData ==
    /\ fnOut = NullObj
    /\ fnOut' = WriteExport(ExportRows(fnIn.chartKey, fnIn.raw, fnIn.sliders,
                                       fnIn.dateFrom, fnIn.dateTo), fnIn.xlsxLoaded)
    /\ UNCHANGED <<appVars, fnIn>>

NextExport == CallGetChartExportData

SpecExport == InitExport /\ [][NextExport]_vars

\* the fields of a text line, split at the semicolons
RECURSIVE SplitSemicolon(_)
SplitSemicolon(line) ==
    IF \A i \in 1..Len(line) : line[i] # Semicolon THEN <<line>>
    ELSE LET p == CHOOSE i \in 1..Len(line) :
                      line[i] = Semicolon /\ \A h \in 1..(i - 1) : line[h] # Semicolon
         IN  <<SubSeq(line, 1, p - 1)>> \o SplitSemicolon(SubSeq(line, p + 1, Len(line)))

\* the values of the dataset's period i that a row of the chart carries
ExpectedValues(chartKey, rawd, sl, i) ==
    CASE chartKey = "main" ->
           <<rawd.actual_rate[i],
             calculateTaylorOf(rawd, getParamValues(sl))[i]>>
      [] chartKey = "cpi" -> <<rawd.cpi[i], rawd.pistar[i]>>
      [] chartKey = "gdp" -> <<rawd.gdp[i]>>

RowsAsExpected(rows, chartKey, rawd, sl, idx) ==
    /\ Len(rows) = Len(idx)
    /\ \A j \in 1..Len(rows) :
           rows[j] = <<rawd.dates[idx[j]]>> \o ExpectedValues(chartKey, rawd, sl, idx[j])

CsvAsExpected(rows, csv) ==
    /\ Len(csv) = Len(rows)
    /\ \A j \in 1..Len(rows) :
           /\ Len(SplitSemicolon(csv[j])) = Len(rows[j])
           /\ SplitSemicolon(csv[j])[1] = rows[j][1]
           /\ \A c \in 2..Len(rows[j]) :
                  (rows[j][c] = null) <=> (SplitSemicolon(csv[j])[c] = <<>>)

XlsxAsExpected(rows, xlsx) ==
    xlsx # NullObj =>
        /\ Len(xlsx.cells) = Len(rows)
        /\ \A j \in 1..Len(rows) :
               /\ Len(xlsx.cells[j]) = Len(rows[j])
               /\ xlsx.cells[j][1] = rows[j][1]
               /\ \A c \in 2..Len(rows[j]) :
                      IF rows[j][c] = null THEN xlsx.cells[j][c] = <<>>
                      ELSE xlsx.cells[j][c] = rows[j][c]

\* C11 (export rows): for the keys main, cpi and gdp, getChartExportData returns one
\* row per dataset period within the inclusive window of the date fields, in the
\* dataset's (chronological) order; a row is the period label followed by the
\* period's values (main: actual rate and the implied rate of the full dataset under
\* the current coefficients; cpi: inflation and target; gdp: growth); a missing value
\* stays null in the row, is an empty field of the CSV line and an empty cell of the
\* XLSX sheet.
C11_ExportRows ==
    (fnOut # NullObj /\ fnIn.chartKey \in CHART_META) =>
        /\ RowsAsExpected(fnOut.rows, fnIn.chartKey, fnIn.raw, fnIn.sliders,
                          KeptIndices(fnIn.raw.dates,
                                      getDateRange(fnIn.dateFrom, fnIn.dateTo).from,
                                      getDateRange(fnIn.dateFrom, fnIn.dateTo).to))
        /\ \A j \in 2..Len(fnOut.rows) :
               PeriodNum(fnOut.rows[j - 1][1]) < PeriodNum(fnOut.rows[j][1])
        /\ CsvAsExpected(fnOut.rows, fnOut.csv)
        /\ XlsxAsExpected(fnOut.rows, fnOut.xlsx)

\* an export of the main chart over a window that leaves a period out and keeps a
\* period whose actual rate is missing and whose implied rate is not, written as XLSX too
C11_Witness ==
    /\ fnOut # NullObj
    /\ fnIn.chartKey = "main"
    /\ fnOut.xlsx # NullObj
    /\ Len(fnOut.rows) >= 2
    /\ Len(fnOut.rows) < Len(fnIn.raw.dates)
    /\ \E j \in 1..Len(fnOut.rows) : fnOut.rows[j][2] = null /\ fnOut.rows[j][3] # null

\* C12 as stated (backward pass propagates): a last label that the forward pass left
\* beyond the bottom limit is pulled to the limit, and the pull is passed on to the
\* predecessors as far back as needed, so that afterwards every consecutive pair is
\* at least MIN_GAP apart whenever the labels fit between the top and the limit; a
\* label is moved by the backward pass only if it was closer than MIN_GAP to its
\* pulled successor; candidates 100 and 105 with gap 20 are 100 and 120 after the
\* forward pass.
C12_BackwardPropagates ==
    (fnOut # NullObj /\ Len(fnOut.result.forward) >= 1) =>
        LET f == fnOut.result.forward
            r == fnOut.result.resolved
            n == Len(fnOut.result.forward)
            limit == ClampLimit(fnIn.area, fnIn.sf)
        IN  /\ (fnIn.pixels = <<100, 105>> /\ fnIn.sf = 1 /\ fnIn.area.bottom = 200)
               => (f[1].yPx = 100 /\ f[2].yPx = 120)
            /\ f[n].yPx > limit => r[n].yPx = limit
            /\ (f[n].yPx > limit /\ (n - 1) * MIN_GAP(fnIn.sf) <= limit - fnIn.area.top)
               => \A i \in 2..n : r[i].yPx - r[i - 1].yPx >= MIN_GAP(fnIn.sf)
            /\ \A i \in 1..(n - 1) :
                   r[i].yPx # f[i].yPx => f[i].yPx > r[i + 1].yPx - MIN_GAP(fnIn.sf)

\* C15 as stated (declutter keeps the order): after the forward pass and the clamp
\* the labels are still in the order of the sort, and their coordinates are
\* non-decreasing along it, for any number of labels.
C15_OrderKept ==
    fnOut # NullObj =>
        /\ Len(fnOut.result.resolved) = Len(fnOut.result.sorted)
        /\ \A i \in 1..Len(fnOut.result.resolved) :
               fnOut.result.resolved[i].di = fnOut.result.sorted[i].di
        /\ \A i \in 2..Len(fnOut.result.resolved) :
               fnOut.result.resolved[i - 1].yPx <= fnOut.result.resolved[i].yPx

\* the rows of an export against a chart: the labels and each dataset's values
RowsShown(rows, chart) ==
    /\ [j \in 1..Len(rows) |-> rows[j][1]] = chart.labels
    /\ \A c \in 1..Len(chart.datasets) :
           [j \in 1..Len(rows) |-> rows[j][c + 1]] = chart.datasets[c]

\* C13 as stated (exported data equals displayed data): at any moment after
\* initialization, a debounced recompute pending or not, the periods and values that
\* getChartExportData returns for a chart are the labels and the dataset values the
\* chart shows (which the PNG export draws).
C13_ExportEqualsDisplay ==
    wired => \A chartKey \in CHART_META :
                 RowsShown(ExportRows(chartKey, raw, sliders, dateFrom, dateTo),
                           charts[chartKey])

-----------------------------------------------------------------------------
(* The page at rest *)

\* the effect of TimerFire on the set of pending timers; no other step of Next takes
\* a timer out of the set without putting one in (TimerDueIsTimerFire)
TimerDue(id) == id \in pendingTimers /\ pendingTimers' = pendingTimers \ {id}

TimerDueIsTimerFire == [][\A id \in TimerIds : TimerDue(id) => TimerFire(id)]_vars

\* The browser runs a timer that stays pending: the callback of setTimeout is called
\* once its delay has passed, unless clearTimeout has removed the timer before.  The
\* condition is on each timer by itself: a timer that scheduleUpdate clears is
\* owed nothing, and the timer armed in its place is another one, so a run of calls
\* of scheduleUpdate without end, each within the delay of the last, is a fair
\* behaviour in which updateTaylorChart never runs.
Fairness == \A id \in TimerIds : WF_pendingTimers(TimerDue(id))

SpecLive == Init /\ [][Next]_vars /\ Fairness

\* a step in which a control takes a new value or a handler arms the timer
Interaction ==
    \/ <<sliders, numInputs, dateFrom, dateTo>>' # <<sliders, numInputs, dateFrom, dateTo>>
    \/ ~(pendingTimers' \subseteq pendingTimers)

\* what the pipeline yields for the coefficients sl and the date fields df, dt, stated
\* from the dataset: the periods within the window with their values, the implied rate
\* taken from the recurrence over the full dataset, and the statistics of the two
\* windowed series
PipelineShown(ch, st, rawd, sl, idx) ==
    /\ ch.main.labels = [j \in 1..Len(idx) |-> rawd.dates[idx[j]]]
    /\ ch.main.datasets[1] = [j \in 1..Len(idx) |-> rawd.actual_rate[idx[j]]]
    /\ ch.main.datasets[2] =
           [j \in 1..Len(idx) |->
               calculateTaylorOf(rawd, getParamValues(sl))[idx[j]]]
    /\ st = computeStatsOf(ch.main.datasets[1], ch.main.datasets[2])
    /\ ch.cpi.labels = ch.main.labels
    /\ ch.cpi.datasets = <<[j \in 1..Len(idx) |-> rawd.cpi[idx[j]]],
                           [j \in 1..Len(idx) |-> rawd.pistar[idx[j]]]>>
    /\ ch.gdp.labels = ch.main.labels
    /\ ch.gdp.datasets = <<[j \in 1..Len(idx) |-> rawd.gdp[idx[j]]]>>

Quiescent ==
    /\ pendingTimers = {}
    /\ PipelineShown(charts, statsView, raw, sliders,
                     KeptIndices(raw.dates, getDateRange(dateFrom, dateTo).from,
                                 getDateRange(dateFrom, dateTo).to))

\* C14 (quiescent consistency): in every state after a successful initialization in
\* which no debounce timer is pending, the main chart's labels, actual and implied
\* rates, the statistics shown and the data of the cpi and gdp charts are what the
\* pipeline yields for the current coefficients and the current window; and if the
\* interactions stop, such a state is reached and kept.
C14_QuiescentConsistency ==
    /\ []((wired /\ pendingTimers = {}) => Quiescent)
    /\ (<>[][~Interaction]_vars) => <>[](wired => Quiescent)

\* at rest after a debounced run that followed a change of a coefficient and of the
\* window: the chart shows fewer periods than the dataset has
C14_Witness ==
    /\ wired
    /\ Quiescent
    /\ hist.runCause = "timer"
    /\ sliders.rho # defaults.rho
    /\ Len(charts.main.labels) >= 1
    /\ Len(charts.main.labels) < Len(raw.dates)

=============================================================================
